---- MODULE Spec2Model ----
(***************************************************************************)
(* Model of the LAAS listing platform's search core                        *)
(* (laas/search/engine.py: SearchEngine.search, get_facets) over the       *)
(* relational store declared in laas/database/models.py.                   *)
(*                                                                         *)
(* A query is modelled by the rows the SQL it compiles to produces: a      *)
(* sequence of listing ids, one per result row, so that the rows a join    *)
(* multiplies, the rows count() counts and the rows offset/limit cut are   *)
(* the same rows.                                                          *)
(***************************************************************************)
EXTENDS Integers, Sequences, FiniteSets

VARIABLES
    dialect,             \* the store behind settings.database_url
    listings,            \* table listings: id -> row
    categories,          \* table categories: id -> row
    tags,                \* table tags: id -> row
    listing_categories,  \* association table: set of <<listing_id, category_id>>
    listing_tags,        \* association table: set of <<listing_id, tag_id>>
    reviews,             \* table reviews: set of rows
    resp,                \* the call in progress / its outcome, as the caller sees it
    pager,               \* a caller walking the offset windows of one query
    tenants,             \* table tenants: id -> row
    rate_limit_store,    \* RateLimitMiddleware.rate_limit_store: client -> second -> count
    admitted,            \* history: every admission of the rate limiter, client -> second -> count
    time,                \* time.time(), in ticks of 1/TicksPerSecond second
    request              \* the HTTP request in the middleware stack, or NoRequest

vars == <<dialect, listings, categories, tags, listing_categories, listing_tags,
          reviews, resp, pager, tenants, rate_limit_store, admitted, time, request>>

web == <<tenants, rate_limit_store, admitted, time, request>>

store == <<dialect, listings, categories, tags, listing_categories, listing_tags,
           reviews>>

(***************************************************************************)
(* Optional values (Python None, SQL NULL): the empty set, or a singleton. *)
(***************************************************************************)
None == {}

Some(v) == {v}

Get(o) == CHOOSE v \in o : TRUE

(***************************************************************************)
(* Bounds of the model.                                                    *)
(***************************************************************************)
NumListings == 2

ListingIds == 1..NumListings

(***************************************************************************)
(* Program constants.                                                      *)
(***************************************************************************)
MaxPageSize == 100

DefaultLimit == 20

DefaultRadius == 25

Dialects == {"postgresql", "sqlite"}

Tenants == {"t1", "t2"}

ListingStatus == {"draft", "pending", "published", "archived", "suspended"}

ReviewStatus == {"pending", "approved", "rejected"}

\* Listing has a search_vector column, so hasattr(Listing, "search_vector") holds.
HasSearchVector == TRUE

\* The listing columns the model carries for the generic filters and the field sort.
ListingFields == {"tenant_id", "status", "currency", "price", "created_at", "title"}

\* Names hasattr(Listing, name) holds for that are no column: the declarative base
\* gives every mapped class its MetaData object as the attribute "metadata".
ClassAttributes == {"metadata"}

(***************************************************************************)
(* Text: a string is a sequence of characters.                             *)
(***************************************************************************)
Lower(c) ==
    CASE c = "M" -> "m"
      [] c = "D" -> "d"
      [] c = "L" -> "l"
      [] c = "P" -> "p"
      [] OTHER -> c

LowerStr(s) == [i \in 1..Len(s) |-> Lower(s[i])]

\* needle occurs in hay as a contiguous run (SQL LIKE '%needle%' after lowering)
Contains(hay, needle) ==
    \E i \in 0..(Len(hay) - Len(needle)) :
        \A j \in 1..Len(needle) : hay[i + j] = needle[j]

\* f"%{query}%": the query is pasted into the pattern as it is
LikePattern(query) == <<"%">> \o query \o <<"%">>

\* text LIKE pattern: % stands for any run of characters, _ for any one character
RECURSIVE like(_, _)
like(text, pattern) ==
    IF pattern = <<>> THEN text = <<>>
    ELSE IF Head(pattern) = "%"
         THEN like(text, Tail(pattern)) \/ (text # <<>> /\ like(Tail(text), pattern))
         ELSE /\ text # <<>>
              /\ Head(pattern) = "_" \/ Head(pattern) = Head(text)
              /\ like(Tail(text), Tail(pattern))

\* column ILIKE '%query%'; NULL ILIKE anything is NULL, which filters the row out
ilike(col, query) ==
    /\ col # None
    /\ like(LowerStr(Get(col)), LowerStr(LikePattern(query)))

\* the names the categories of the store carry, as texts
Laptops == <<"L", "a", "p", "t", "o", "p", "s">>

Phones == <<"P", "h", "o", "n", "e", "s">>

Chars(name) ==
    CASE name = "Laptops" -> Laptops
      [] name = "Phones" -> Phones

\* the words of a text in order: maximal runs of non-blank characters, lowered
RECURSIVE WordSeq(_, _)
WordSeq(s, cur) ==
    IF s = <<>> THEN (IF cur = <<>> THEN <<>> ELSE <<cur>>)
    ELSE IF Head(s) = " "
         THEN (IF cur = <<>> THEN <<>> ELSE <<cur>>) \o WordSeq(Tail(s), <<>>)
         ELSE WordSeq(Tail(s), Append(cur, Lower(Head(s))))

Words(s) == {WordSeq(s, <<>>)[i] : i \in 1..Len(WordSeq(s, <<>>))}

\* search_vector @@ plainto_tsquery(query): every word of the query is a word of
\* the vector; a NULL vector and a query with no word match nothing
match(search_vector, query) ==
    /\ search_vector # None
    /\ Words(query) # {}
    /\ Words(query) \subseteq Words(Get(search_vector))

\* ts_rank(search_vector, plainto_tsquery(query)): grows with the number of
\* occurrences of the query's words in the vector
ts_rank(search_vector, query) ==
    IF search_vector = None THEN 0
    ELSE LET ws == WordSeq(Get(search_vector), <<>>)
         IN  Cardinality({i \in 1..Len(ws) : ws[i] \in Words(query)})

(***************************************************************************)
(* The store as one value, so that a query can be evaluated on the store   *)
(* as it is and on a store with rows removed.                              *)
(***************************************************************************)
DB == [dialect |-> dialect, listings |-> listings, categories |-> categories,
       tags |-> tags, listing_categories |-> listing_categories,
       listing_tags |-> listing_tags, reviews |-> reviews]

\* Python truthiness of the optional arguments
TruthyText(q) == q # None /\ Get(q) # <<>>

TruthyNum(n) == n # None /\ Get(n) # 0

Min2(a, b) == IF a <= b THEN a ELSE b

Max2(a, b) == IF a >= b THEN a ELSE b

(***************************************************************************)
(* SearchEngine.search: the predicate stages.                              *)
(***************************************************************************)
\* the base query without its is_public condition
Eligible_NoPublic(l, tenant_id) ==
    /\ l.tenant_id = tenant_id
    /\ l.status = "published"

\* the base query: tenant, public, published
Eligible(l, tenant_id) ==
    /\ l.tenant_id = tenant_id
    /\ l.is_public = TRUE
    /\ l.status = "published"

\* the free-text stage
TextMatch(l, query) ==
    IF HasSearchVector
    THEN match(l.search_vector, query)
    ELSE \/ ilike(Some(l.title), query)
         \/ ilike(l.description, query)
         \/ ilike(l.address, query)
         \/ ilike(l.city, query)
         \/ ilike(l.state, query)

\* rows of listing id in listings JOIN listing_categories JOIN categories
\* WHERE categories.slug IN slugs
CategoryJoin(db, id, slugs) ==
    {c \in DOMAIN db.categories :
        /\ <<id, c>> \in db.listing_categories
        /\ \E k \in 1..Len(slugs) : db.categories[c].slug = slugs[k]}

\* the tag join with AND over the slugs: the listing has to carry every one of them
TagJoin_AllSlugs(db, id, slugs) ==
    {g \in DOMAIN db.tags :
        /\ <<id, g>> \in db.listing_tags
        /\ \A k \in 1..Len(slugs) :
                \E h \in DOMAIN db.tags :
                    <<id, h>> \in db.listing_tags /\ db.tags[h].slug = slugs[k]}

TagJoin(db, id, slugs) ==
    {g \in DOMAIN db.tags :
        /\ <<id, g>> \in db.listing_tags
        /\ \E k \in 1..Len(slugs) : db.tags[g].slug = slugs[k]}

Radius(location) ==
    IF location.radius = None THEN DefaultRadius ELSE Get(location.radius)

\* squared distance of the listing from the point, on a flat grid of miles
Distance2(l, location) ==
    LET dy == Get(l.latitude) - Get(location.latitude)
        dx == Get(l.longitude) - Get(location.longitude)
    IN  dy * dy + dx * dx

\* ST_DWithin(listing point, given point, radius miles)
ST_DWithin(l, location) ==
    Distance2(l, location) <= Radius(location) * Radius(location)

LocationGiven(location) ==
    /\ location # None
    /\ TruthyNum(Get(location).latitude)
    /\ TruthyNum(Get(location).longitude)

LocationMatch(l, location) ==
    LocationGiven(location) =>
        /\ l.latitude # None
        /\ l.longitude # None
        /\ ST_DWithin(l, Get(location))

\* the price stage with strict comparisons
PriceMatch_Strict(l, price_range) ==
    /\ price_range.min # None => (l.price # None /\ Get(l.price) > Get(price_range.min))
    /\ price_range.max # None => (l.price # None /\ Get(l.price) < Get(price_range.max))

\* price >= min, price <= max; a comparison with a NULL price is not true
PriceMatch(l, price_range) ==
    /\ price_range.min # None => (l.price # None /\ Get(l.price) >= Get(price_range.min))
    /\ price_range.max # None => (l.price # None /\ Get(l.price) <= Get(price_range.max))

\* getattr(Listing, field), as an optional value
FieldValue(l, field) ==
    CASE field = "tenant_id" -> Some(l.tenant_id)
      [] field = "status" -> Some(l.status)
      [] field = "currency" -> Some(l.currency)
      [] field = "price" -> l.price
      [] field = "created_at" -> Some(l.created_at)
      [] field = "title" -> Some(l.title)

\* one entry of the filters mapping, as search() applies it.  For an attribute
\* that is no column, getattr(Listing, field) == value is the Python value False,
\* and filter(False) compiles to WHERE false.
FilterMatch(l, f) ==
    IF f.field \in ClassAttributes /\ f.kind = "scalar" THEN FALSE
    ELSE (f.field \in ListingFields /\ f.kind # "none") =>
            IF f.kind = "list"
            THEN FieldValue(l, f.field) # None /\ Get(FieldValue(l, f.field)) \in f.vals
            ELSE FieldValue(l, f.field) # None /\ FieldValue(l, f.field) = f.vals

\* the WHERE clause if each stage replaced the clause built so far instead of
\* narrowing it: the last stage given decides
SearchPredicate_LastStage(db, id, req) ==
    LET l == db.listings[id]
    IN  /\ Eligible(l, req.tenant_id)
        /\ IF req.filters # {} THEN \A f \in req.filters : FilterMatch(l, f)
           ELSE IF req.price_range # [min |-> None, max |-> None]
           THEN PriceMatch(l, req.price_range)
           ELSE IF req.location # None THEN LocationMatch(l, req.location)
           ELSE TruthyText(req.query) => TextMatch(l, Get(req.query))

\* the WHERE clause of search(), joins apart
SearchPredicate(db, id, req) ==
    LET l == db.listings[id]
    IN  /\ Eligible(l, req.tenant_id)
        /\ TruthyText(req.query) => TextMatch(l, Get(req.query))
        /\ LocationMatch(l, req.location)
        /\ PriceMatch(l, req.price_range)
        /\ \A f \in req.filters : FilterMatch(l, f)

\* approved reviews of a listing: the rows the rating sort keeps
ApprovedReviews(db, id) ==
    {r \in db.reviews : r.listing_id = id /\ r.status = "approved"}

\* the number of rows listing id has in the query search() builds
RowCount(db, id, req) ==
    IF ~SearchPredicate(db, id, req) THEN 0
    ELSE LET nc == IF req.categories # <<>>
                   THEN Cardinality(CategoryJoin(db, id, req.categories)) ELSE 1
             nt == IF req.tags # <<>>
                   THEN Cardinality(TagJoin(db, id, req.tags)) ELSE 1
         IN  IF req.sort_by = "rating"
             THEN (IF nc * nt > 0 /\ ApprovedReviews(db, id) # {} THEN 1 ELSE 0)
             ELSE nc * nt

\* the result rows of the query as a bag of listing ids
RowBag(db, req) == [id \in DOMAIN db.listings |-> RowCount(db, id, req)]

(***************************************************************************)
(* SearchEngine.search: the sort strategy.                                 *)
(***************************************************************************)
\* the chain with no ORDER BY when sort_by="relevance" comes without a query
SortMode_RelevanceUnordered(req) ==
    IF req.sort_by = "relevance" /\ TruthyText(req.query)
    THEN (IF HasSearchVector THEN "rank" ELSE "created_at_desc")
    ELSE IF req.sort_by = "relevance" THEN "unordered"
    ELSE IF req.sort_by = "distance" /\ req.location # None
    THEN (IF LocationGiven(req.location) THEN "distance" ELSE "unordered")
    ELSE IF req.sort_by = "rating" THEN "rating"
    ELSE IF req.sort_by \in ListingFields THEN "field"
    ELSE IF req.sort_by \in ClassAttributes THEN "attribute"
    ELSE "created_at_desc"

\* which branch of the if/elif chain orders the query
SortMode(req) ==
    IF req.sort_by = "relevance" /\ TruthyText(req.query)
    THEN (IF HasSearchVector THEN "rank" ELSE "created_at_desc")
    ELSE IF req.sort_by = "distance" /\ req.location # None
    THEN (IF LocationGiven(req.location) THEN "distance" ELSE "unordered")
    ELSE IF req.sort_by = "rating" THEN "rating"
    ELSE IF req.sort_by \in ListingFields THEN "field"
    ELSE IF req.sort_by \in ClassAttributes THEN "attribute"
    ELSE "created_at_desc"

\* x sorts strictly before y in ascending order; PostgreSQL puts NULL after every
\* value, SQLite before
Less(d, x, y) ==
    IF x = None /\ y = None THEN FALSE
    ELSE IF x = None THEN d = "sqlite"
    ELSE IF y = None THEN d = "postgresql"
    ELSE Get(x) < Get(y)

RECURSIVE SumRatings(_)
SumRatings(rs) ==
    IF rs = {} THEN 0
    ELSE LET r == CHOOSE x \in rs : TRUE IN r.rating + SumRatings(rs \ {r})

\* avg(rating) of a is greater than avg(rating) of b, over their approved reviews
AvgGreater(db, a, b) ==
    SumRatings(ApprovedReviews(db, a)) * Cardinality(ApprovedReviews(db, b))
        > SumRatings(ApprovedReviews(db, b)) * Cardinality(ApprovedReviews(db, a))

\* the ORDER BY clause with the field sort descending whatever sort_order is
OrderedBefore_AlwaysDesc(db, req, a, b) ==
    LET la == db.listings[a]
        lb == db.listings[b]
        mode == SortMode(req)
    IN  CASE mode = "rank" ->
                ts_rank(la.search_vector, Get(req.query))
                    > ts_rank(lb.search_vector, Get(req.query))
          [] mode = "distance" ->
                Distance2(la, Get(req.location)) < Distance2(lb, Get(req.location))
          [] mode = "rating" -> AvgGreater(db, a, b)
          [] mode = "field" ->
                Less(db.dialect, FieldValue(lb, req.sort_by), FieldValue(la, req.sort_by))
          [] mode = "created_at_desc" -> la.created_at > lb.created_at
          [] OTHER -> FALSE

\* the ORDER BY clause: a row of listing a has to come before a row of listing b
OrderedBefore(db, req, a, b) ==
    LET la == db.listings[a]
        lb == db.listings[b]
        mode == SortMode(req)
    IN  CASE mode = "rank" ->
                ts_rank(la.search_vector, Get(req.query))
                    > ts_rank(lb.search_vector, Get(req.query))
          [] mode = "distance" ->
                Distance2(la, Get(req.location)) < Distance2(lb, Get(req.location))
          [] mode = "rating" -> AvgGreater(db, a, b)
          [] mode = "field" ->
                IF req.sort_order = "desc"
                THEN Less(db.dialect, FieldValue(lb, req.sort_by), FieldValue(la, req.sort_by))
                ELSE Less(db.dialect, FieldValue(la, req.sort_by), FieldValue(lb, req.sort_by))
          [] mode = "created_at_desc" -> la.created_at > lb.created_at
          [] OTHER -> FALSE

\* every order in which the store may hand out the rows of the bag: rows that tie
\* under ORDER BY come in any order
RECURSIVE Arrange(_, _, _)
Arrange(db, req, bag) ==
    LET left == {i \in DOMAIN bag : bag[i] > 0}
        firsts == {i \in left : \A j \in left : ~OrderedBefore(db, req, j, i)}
    IN  IF left = {} THEN {<<>>}
        ELSE UNION {{<<i>> \o s : s \in Arrange(db, req, [bag EXCEPT ![i] = @ - 1])} :
                        i \in firsts}

(***************************************************************************)
(* SearchEngine.search: count, pagination, envelope.                       *)
(***************************************************************************)
\* what raises while the query is built: an attribute of the class that is no
\* column has no in_() for a list-valued filter and no desc()/asc() for the sort
BuildFails(req) ==
    \/ \E f \in req.filters : f.field \in ClassAttributes /\ f.kind = "list"
    \/ SortMode(req) = "attribute"

\* what the store refuses: SQLite has neither MATCH on a plain table nor the PostGIS
\* functions, PostgreSQL rejects a negative LIMIT or OFFSET
StoreFails(db, req) ==
    \/ db.dialect = "sqlite" /\ TruthyText(req.query) /\ HasSearchVector
    \/ db.dialect = "sqlite" /\ LocationGiven(req.location)
    \/ db.dialect = "postgresql" /\ (req.limit < 0 \/ req.offset < 0)

\* q.offset(offset).limit(limit): SQLite reads a negative OFFSET as 0 and a negative
\* LIMIT as no limit
Window(rows, limit, offset) ==
    LET from == Max2(offset, 0)
        to == IF limit < 0 THEN Len(rows) ELSE Min2(from + limit, Len(rows))
    IN  IF from >= to THEN <<>> ELSE SubSeq(rows, from + 1, to)

\* Query.all() on a single entity returns each object once, in first-seen order
RECURSIVE Unique(_)
Unique(s) ==
    IF s = <<>> THEN <<>>
    ELSE LET init == Unique(SubSeq(s, 1, Len(s) - 1))
             last == s[Len(s)]
         IN  IF \E i \in 1..Len(init) : init[i] = last THEN init ELSE Append(init, last)

\* the envelope search() returns when the store hands out the rows in this order
Envelope(req, rows) ==
    [op |-> "search", req |-> req, status |-> "ok",
     results |-> Unique(Window(rows, req.limit, req.offset)),
     total |-> Len(rows),
     limit |-> req.limit,
     offset |-> req.offset,
     has_more |-> (req.offset + req.limit) < Len(rows)]

\* the envelope when count() and all() are two statements: total is what the
\* first counted, results and has_more come from the rows the second returns
EnvelopeOf(req, total, rows) ==
    [op |-> "search", req |-> req, status |-> "ok",
     results |-> Unique(Window(rows, req.limit, req.offset)),
     total |-> total,
     limit |-> req.limit,
     offset |-> req.offset,
     has_more |-> (req.offset + req.limit) < total]

Raised(op, req, error) == [op |-> op, req |-> req, status |-> "error", error |-> error]

\* every outcome of search(req) on the store db
SearchOutcomes(db, req) ==
    IF BuildFails(req) THEN {Raised("search", req, "AttributeError")}
    ELSE IF StoreFails(db, req) THEN {Raised("search", req, "StoreError")}
    ELSE {Envelope(req, rows) : rows \in Arrange(db, req, RowBag(db, req))}

(***************************************************************************)
(* SearchEngine.get_facets.  The query q it builds from tenant, query and  *)
(* filters (engine.py 181-203) is never executed or joined to: the three   *)
(* aggregates below are each built from self.db.query(...) afresh.         *)
(***************************************************************************)
RECURSIVE SumPrices(_, _)
SumPrices(db, ids) ==
    IF ids = {} THEN 0
    ELSE LET i == CHOOSE x \in ids : TRUE
         IN  Get(db.listings[i].price) + SumPrices(db, ids \ {i})

\* count(Listing.id) of listings JOIN listing_categories JOIN categories for one
\* category: every listing row associated with it
CategoryCount(db, c) ==
    Cardinality({id \in DOMAIN db.listings : <<id, c>> \in db.listing_categories})

\* the category facet: one row per active category of the tenant that the inner
\* join reaches
category_facets(db, tenant_id) ==
    {[name |-> db.categories[c].name, slug |-> db.categories[c].slug,
      count |-> CategoryCount(db, c)] :
        c \in {x \in DOMAIN db.categories :
                /\ db.categories[x].tenant_id = tenant_id
                /\ db.categories[x].is_active = TRUE
                /\ CategoryCount(db, x) > 0}}

TagCount(db, g) ==
    Cardinality({id \in DOMAIN db.listings : <<id, g>> \in db.listing_tags})

tag_facets(db, tenant_id) ==
    {[name |-> db.tags[g].name, slug |-> db.tags[g].slug, count |-> TagCount(db, g)] :
        g \in {x \in DOMAIN db.tags :
                /\ db.tags[x].tenant_id = tenant_id
                /\ db.tags[x].is_active = TRUE
                /\ TagCount(db, x) > 0}}

\* the price aggregate without the conditions on visibility and status
PricedListings_AnyStatus(db, tenant_id) ==
    {id \in DOMAIN db.listings :
        /\ db.listings[id].tenant_id = tenant_id
        /\ db.listings[id].price # None}

\* the listings the price aggregate ranges over
PricedListings(db, tenant_id) ==
    {id \in DOMAIN db.listings :
        /\ Eligible(db.listings[id], tenant_id)
        /\ db.listings[id].price # None}

\* min, max, avg over a set of priced listings: NULL over no row; avg in whole units
Aggregate(db, ids) ==
    IF ids = {} THEN [min_price |-> None, max_price |-> None, avg_price |-> None]
    ELSE [min_price |-> Some(CHOOSE p \in {Get(db.listings[i].price) : i \in ids} :
                                \A i \in ids : p <= Get(db.listings[i].price)),
          max_price |-> Some(CHOOSE p \in {Get(db.listings[i].price) : i \in ids} :
                                \A i \in ids : p >= Get(db.listings[i].price)),
          avg_price |-> Some(SumPrices(db, ids) \div Cardinality(ids))]

\* .first() of an aggregate query: always one row, which may hold NULLs
price_stats(db, tenant_id) == Some(Aggregate(db, PricedListings(db, tenant_id)))

\* float(x) if x else 0
FloatOrZero(x) == IF TruthyNum(x) THEN Get(x) ELSE 0

\* the price_range entry: a row object is truthy whatever its columns hold
price_range_facet(stats) ==
    IF stats # None
    THEN Some([min |-> FloatOrZero(Get(stats).min_price),
               max |-> FloatOrZero(Get(stats).max_price),
               avg |-> FloatOrZero(Get(stats).avg_price)])
    ELSE None

Facets(db, req) ==
    [op |-> "get_facets", req |-> req, status |-> "ok",
     categories |-> category_facets(db, req.tenant_id),
     tags |-> tag_facets(db, req.tenant_id),
     price_range |-> price_range_facet(price_stats(db, req.tenant_id))]

(***************************************************************************)
(* SearchEngine.get_suggestions.                                           *)
(***************************************************************************)
\* the listings whose title the first query selects
TitleRows(db, tenant_id, query) ==
    {id \in DOMAIN db.listings :
        /\ Eligible(db.listings[id], tenant_id)
        /\ ilike(Some(db.listings[id].title), query)}

\* the categories whose name the second query selects
NameRows(db, tenant_id, query) ==
    {c \in DOMAIN db.categories :
        /\ db.categories[c].tenant_id = tenant_id
        /\ db.categories[c].is_active = TRUE
        /\ ilike(Some(Chars(db.categories[c].name)), query)}

\* .limit(limit).all() with no ORDER BY: any limit of the rows; SQLite reads a
\* negative LIMIT as no limit
LimitRows(rows, limit) ==
    IF limit < 0 THEN {rows}
    ELSE {r \in SUBSET rows : Cardinality(r) = Min2(limit, Cardinality(rows))}

\* list(a set of strings): its members once each, in an order the caller cannot
\* tell beforehand
RECURSIVE ListOf(_)
ListOf(strings) ==
    IF strings = {} THEN {<<>>}
    ELSE UNION {{<<x>> \o rest : rest \in ListOf(strings \ {x})} : x \in strings}

\* a_list[:limit]
Slice(list, limit) ==
    IF limit >= 0 THEN SubSeq(list, 1, Min2(limit, Len(list)))
    ELSE SubSeq(list, 1, Max2(Len(list) + limit, 0))

\* every outcome of get_suggestions(req) on the store db
Suggestions(db, req) ==
    IF db.dialect = "postgresql" /\ req.limit < 0
    THEN {Raised("get_suggestions", req, "StoreError")}
    ELSE {[op |-> "get_suggestions", req |-> req, status |-> "ok",
           suggestions |-> Slice(list, req.limit)] :
            list \in UNION {ListOf({db.listings[id].title : id \in title_suggestions}
                                    \cup {Chars(db.categories[c].name) :
                                            c \in category_suggestions}) :
                title_suggestions \in
                    LimitRows(TitleRows(db, req.tenant_id, req.query), req.limit),
                category_suggestions \in
                    LimitRows(NameRows(db, req.tenant_id, req.query), req.limit)}}

(***************************************************************************)
(* The stores the model starts from.  The test fixture of                  *)
(* tests/test_search.py, cut down: listings that differ in what the        *)
(* filters read, under every tenant, visibility and status.                *)
(***************************************************************************)
Mac == <<"M", "a", "c">>

Dell == <<"D", "e", "l", "l">>

MacQuery == <<"m", "a", "c">>

\* what a listing holds apart from tenant, visibility and status
Content(id) ==
    CASE id = 1 ->
            [title |-> Mac, description |-> None, address |-> None, city |-> None,
             state |-> None, search_vector |-> Some(Mac), latitude |-> Some(1),
             longitude |-> Some(1), price |-> Some(10), currency |-> "USD",
             created_at |-> 1]
      [] id = 2 ->
            [title |-> Dell, description |-> Some(Mac), address |-> None, city |-> None,
             state |-> None, search_vector |-> Some(Dell), latitude |-> None,
             longitude |-> None, price |-> Some(20), currency |-> "EUR",
             created_at |-> 2]
      [] OTHER ->
            [title |-> Mac \o <<" ">> \o Dell, description |-> None, address |-> None,
             city |-> None, state |-> None, search_vector |-> Some(Mac \o <<" ">> \o Mac),
             latitude |-> Some(2), longitude |-> Some(1), price |-> None,
             currency |-> "USD", created_at |-> 2]

Visibilities == [tenant_id : Tenants, is_public : BOOLEAN, status : ListingStatus]

ListingRow(id, v) ==
    [tenant_id |-> v.tenant_id, is_public |-> v.is_public, status |-> v.status,
     title |-> Content(id).title, description |-> Content(id).description,
     address |-> Content(id).address, city |-> Content(id).city,
     state |-> Content(id).state, search_vector |-> Content(id).search_vector,
     latitude |-> Content(id).latitude, longitude |-> Content(id).longitude,
     price |-> Content(id).price, currency |-> Content(id).currency,
     created_at |-> Content(id).created_at]

\* two categories of t1 and a category of t2 that reuses a slug of t1
CategoryRows ==
    [c \in {"c1", "c2", "c3"} |->
        CASE c = "c1" -> [tenant_id |-> "t1", name |-> "Laptops", slug |-> "laptops",
                          is_active |-> TRUE]
          [] c = "c2" -> [tenant_id |-> "t1", name |-> "Phones", slug |-> "phones",
                          is_active |-> TRUE]
          [] OTHER -> [tenant_id |-> "t2", name |-> "Laptops", slug |-> "laptops",
                       is_active |-> TRUE]]

TagRows ==
    [g \in {"g1", "g2"} |->
        CASE g = "g1" -> [tenant_id |-> "t1", name |-> "Featured", slug |-> "featured",
                          is_active |-> TRUE]
          [] OTHER -> [tenant_id |-> "t1", name |-> "New", slug |-> "new",
                       is_active |-> FALSE]]

\* listing 1 is in two categories of t1; listing 2 is in the category of t2 that
\* reuses the slug "laptops"; any other listing is in one category of t1
CategoryLinks ==
    {<<1, "c1">>, <<1, "c2">>, <<2, "c3">>} \cup {<<i, "c1">> : i \in ListingIds \ {1, 2}}

TagLinks == {<<1, "g1">>, <<2, "g1">>, <<2, "g2">>}

ReviewRows ==
    {[listing_id |-> 1, user_id |-> "u1", rating |-> 4, status |-> "approved"],
     [listing_id |-> 1, user_id |-> "u2", rating |-> 1, status |-> "rejected"],
     [listing_id |-> 2, user_id |-> "u1", rating |-> 5, status |-> "pending"]}

Idle == [op |-> "idle"]

(***************************************************************************)
(* The HTTP stack of laas.main.  A request is the part of it the           *)
(* middlewares read: the path as its characters, the Host header as its    *)
(* labels (the text between the dots), X-Forwarded-For as its addresses.   *)
(* Tenant ids are UUIDs: "t1", "t2" and "t9" stand for UUID texts, "t9"    *)
(* being the id of no tenant, and every other text is no UUID.             *)
(***************************************************************************)
TicksPerSecond == 2

MaxTime == 8

rate_limit_requests == 2

rate_limit_window == 2

int(t) == t \div TicksPerSecond

IsUuid(text) == text \in {"t1", "t2", "t9"}

TenantRows(status2) ==
    [t \in Tenants |->
        IF t = "t1"
        THEN [name |-> "Acme", subdomain |-> "acme", status |-> "active"]
        ELSE [name |-> "Beta", subdomain |-> "beta", status |-> status2]]

HealthPath == <<"/", "h", "e", "a", "l", "t", "h">>

HealthzPath == <<"/", "h", "e", "a", "l", "t", "h", "z">>

DocsPath == <<"/", "d", "o", "c", "s">>

RedocPath == <<"/", "r", "e", "d", "o", "c">>

OpenapiPath == <<"/", "o", "p", "e", "n", "a", "p", "i", ".", "j", "s", "o", "n">>

FaviconPath == <<"/", "f", "a", "v", "i", "c", "o", "n", ".", "i", "c", "o">>

ListingsPath == <<"/", "a", "p", "i", "/", "v", "1", "/", "l", "i", "s", "t", "i", "n", "g", "s">>

startswith(text, prefix) ==
    /\ Len(prefix) <= Len(text)
    /\ SubSeq(text, 1, Len(prefix)) = prefix

Truthy(o) == o # None /\ Get(o) # ""

\* app.add_middleware puts the middleware at the head of user_middleware, and the
\* stack is built with the head outermost; @app.middleware("http") adds the same way
add_middleware(user_middleware, cls) == <<cls>> \o user_middleware

MiddlewareStack ==
    add_middleware(
        add_middleware(
            add_middleware(
                add_middleware(
                    add_middleware(
                        add_middleware(<<>>, "TrustedHostMiddleware"),
                        "CORSMiddleware"),
                    "TenantMiddleware"),
                "RateLimitMiddleware"),
            "AuditMiddleware"),
        "process_request")

\* TrustedHostMiddleware with settings.allowed_hosts
AllowedHost(host) ==
    \/ host \in {<<"localhost">>, <<"127", "0", "0", "1">>, <<"testserver">>}
    \/ /\ Len(host) >= 3
       /\ SubSeq(host, Len(host) - 1, Len(host)) = <<"run", "app">>

_should_skip_rate_limiting(req) ==
    \E path \in {HealthPath, DocsPath, RedocPath, OpenapiPath} :
        startswith(req.path, path)

_should_skip_tenant_resolution(req) ==
    \E path \in {HealthPath, DocsPath, RedocPath, OpenapiPath, FaviconPath} :
        startswith(req.path, path)

\* subdomain_pattern ^([^.]+)\.(.+)$ on the Host header
SubdomainOf(host) ==
    IF /\ Len(host) >= 2
       /\ host[1] # ""
       /\ Len(host) >= 3 \/ host[2] # ""
    THEN Some(host[1])
    ELSE None

_extract_tenant_id(req) ==
    IF Truthy(req.x_tenant_id) THEN req.x_tenant_id
    ELSE IF /\ SubdomainOf(req.host) # None
            /\ Get(SubdomainOf(req.host)) \notin {"www", "api", "admin", "app"}
         THEN SubdomainOf(req.host)
    ELSE IF Truthy(req.tenant_id) THEN req.tenant_id
    ELSE None

\* Tenant.id == tenant_identifier on a UUID(as_uuid=True) column: PostgreSQL rejects
\* a text that is no UUID, and the character-based binding of SQLite takes the .hex
\* of the value, which a str does not have; either exception is caught
ByIdRaises(d, tenant_identifier) == d = "sqlite" \/ ~IsUuid(tenant_identifier)

\* the id of the tenant found, or None
_validate_tenant(rows, d, tenant_identifier) ==
    IF ByIdRaises(d, tenant_identifier) THEN None
    ELSE LET by_id == {t \in DOMAIN rows : t = tenant_identifier}
             by_subdomain == {t \in DOMAIN rows :
                                /\ rows[t].subdomain = tenant_identifier
                                /\ rows[t].status = "active"}
             tenant == IF by_id # {} THEN by_id ELSE by_subdomain
         IN  IF tenant # {} /\ rows[Get(tenant)].status # "active"
             THEN None
             ELSE tenant

_get_client_identifier(req, state) ==
    IF Truthy(state.tenant_id) THEN <<"tenant", Get(state.tenant_id)>>
    ELSE IF req.forwarded_for # None /\ Get(req.forwarded_for) # <<>>
         THEN <<"ip", Head(Get(req.forwarded_for))>>
    ELSE IF req.client # None THEN <<"ip", Get(req.client)>>
    ELSE <<"ip", "unknown">>

RECURSIVE SumValues(_)
SumValues(counts) ==
    IF DOMAIN counts = {} THEN 0
    ELSE LET k == CHOOSE k \in DOMAIN counts : TRUE
         IN  counts[k] + SumValues([j \in DOMAIN counts \ {k} |-> counts[j]])

Recent(counts, window_start) ==
    [timestamp \in {ts \in DOMAIN counts : ts > window_start} |-> counts[timestamp]]

SetItem(dict, key, value) ==
    [k \in DOMAIN dict \cup {key} |-> IF k = key THEN value ELSE dict[k]]

\* a limiter that admits while the count has not passed the limit
_check_rate_limit_Late(limiter, client_id, current_time) ==
    LET window_start == current_time - rate_limit_window
        kept == IF client_id \in DOMAIN limiter
                THEN Recent(limiter[client_id], window_start)
                ELSE <<>>
        current_requests == SumValues(kept)
    IN  IF current_requests > rate_limit_requests
        THEN [allowed |-> FALSE, limiter |-> SetItem(limiter, client_id, kept)]
        ELSE [allowed |-> TRUE,
              limiter |-> SetItem(limiter, client_id,
                            SetItem(kept, current_time,
                                IF current_time \in DOMAIN kept
                                THEN kept[current_time] + 1 ELSE 1))]

\* the answer, and rate_limit_store after the call
_check_rate_limit(limiter, client_id, current_time) ==
    LET window_start == current_time - rate_limit_window
        kept == IF client_id \in DOMAIN limiter
                THEN Recent(limiter[client_id], window_start)
                ELSE <<>>
        current_requests == SumValues(kept)
    IN  IF current_requests >= rate_limit_requests
        THEN [allowed |-> FALSE, limiter |-> SetItem(limiter, client_id, kept)]
        ELSE [allowed |-> TRUE,
              limiter |-> SetItem(limiter, client_id,
                            SetItem(kept, current_time,
                                IF current_time \in DOMAIN kept
                                THEN kept[current_time] + 1 ELSE 1))]

_get_remaining_requests(limiter, client_id, current_time) ==
    IF client_id \notin DOMAIN limiter THEN rate_limit_requests
    ELSE LET current_requests ==
                 SumValues(Recent(limiter[client_id], current_time - rate_limit_window))
         IN  IF rate_limit_requests - current_requests > 0
             THEN rate_limit_requests - current_requests
             ELSE 0

Addresses == {"ip1", "ip2", "unknown"}

ClientIds == ({"tenant"} \X Tenants) \cup ({"ip"} \X Addresses)

NoRequest == [at |-> 0]

NoAdmissions == [c \in ClientIds |-> [second \in 0..int(MaxTime) |-> 0]]

WebAtRest ==
    /\ tenants = TenantRows("active")
    /\ rate_limit_store = <<>>
    /\ admitted = NoAdmissions
    /\ time = 0
    /\ request = NoRequest

PagerIdle == [state |-> "idle"]

Init ==
    /\ dialect \in Dialects
    /\ \E v \in [ListingIds -> Visibilities] :
            listings = [i \in ListingIds |-> ListingRow(i, v[i])]
    /\ categories = CategoryRows
    /\ tags = TagRows
    /\ listing_categories = CategoryLinks
    /\ listing_tags = TagLinks
    /\ reviews = ReviewRows
    /\ resp = Idle
    /\ pager = PagerIdle
    /\ WebAtRest

(***************************************************************************)
(* Stores for the filter stages: the fixture with the price and the        *)
(* search_vector of each listing varied.  Nothing in the repository writes *)
(* search_vector, so the column is NULL unless the store fills it behind   *)
(* the program's back.                                                     *)
(***************************************************************************)
FilterVisibilities ==
    {[tenant_id |-> "t1", is_public |-> TRUE, status |-> "published"],
     [tenant_id |-> "t1", is_public |-> TRUE, status |-> "draft"]}

Prices == {None, Some(10), Some(20)}

FilterVariants == [visibility : FilterVisibilities, price : Prices, indexed : BOOLEAN]

FilterRow(id, v) ==
    [ListingRow(id, v.visibility) EXCEPT
        !.price = v.price,
        !.search_vector = IF v.indexed THEN @ ELSE None]

InitFilters ==
    /\ dialect \in Dialects
    /\ \E v \in [ListingIds -> FilterVariants] :
            listings = [i \in ListingIds |-> FilterRow(i, v[i])]
    /\ categories = CategoryRows
    /\ tags = TagRows
    /\ listing_categories = CategoryLinks
    /\ listing_tags = TagLinks
    /\ reviews = ReviewRows
    /\ resp = Idle
    /\ pager = PagerIdle
    /\ WebAtRest

(***************************************************************************)
(* Stores for the sort strategy: eligible listings of one tenant with the  *)
(* price, the creation time and the reviews of each varied.                *)
(***************************************************************************)
Published == [tenant_id |-> "t1", is_public |-> TRUE, status |-> "published"]

SortVariants == [price : Prices, created_at : {1, 2}]

SortRow(id, v) ==
    [ListingRow(id, Published) EXCEPT !.price = v.price, !.created_at = v.created_at]

\* the reviews of one listing: none approved, one approved, two approved
ReviewChoices == {"unrated", "rated", "mixed"}

ReviewsOf(id, choice) ==
    CASE choice = "unrated" ->
            {[listing_id |-> id, user_id |-> "u1", rating |-> 5, status |-> "pending"]}
      [] choice = "rated" ->
            {[listing_id |-> id, user_id |-> "u1", rating |-> 4, status |-> "approved"]}
      [] OTHER ->
            {[listing_id |-> id, user_id |-> "u1", rating |-> 5, status |-> "approved"],
             [listing_id |-> id, user_id |-> "u2", rating |-> 1, status |-> "approved"]}

InitSorts ==
    /\ dialect \in Dialects
    /\ \E v \in [ListingIds -> SortVariants] :
            listings = [i \in ListingIds |-> SortRow(i, v[i])]
    /\ categories = CategoryRows
    /\ tags = TagRows
    /\ listing_categories = CategoryLinks
    /\ listing_tags = TagLinks
    /\ \E r \in [ListingIds -> ReviewChoices] :
            reviews = UNION {ReviewsOf(i, r[i]) : i \in ListingIds}
    /\ resp = Idle
    /\ pager = PagerIdle
    /\ WebAtRest

(***************************************************************************)
(* Stores for the suggestions: listings titled like one another and like   *)
(* a category, and a category that may be inactive.                        *)
(***************************************************************************)
SuggestVisibilities ==
    {[tenant_id |-> "t1", is_public |-> TRUE, status |-> "published"],
     [tenant_id |-> "t1", is_public |-> FALSE, status |-> "published"],
     [tenant_id |-> "t2", is_public |-> TRUE, status |-> "published"]}

SuggestVariants == [visibility : SuggestVisibilities, title : {Mac, Dell, Laptops}]

SuggestRow(id, v) == [ListingRow(id, v.visibility) EXCEPT !.title = v.title]

InitSuggest ==
    /\ dialect \in Dialects
    /\ \E v \in [ListingIds -> SuggestVariants] :
            listings = [i \in ListingIds |-> SuggestRow(i, v[i])]
    /\ \E active \in BOOLEAN :
            categories = [CategoryRows EXCEPT !["c2"].is_active = active]
    /\ tags = TagRows
    /\ listing_categories = CategoryLinks
    /\ listing_tags = TagLinks
    /\ reviews = ReviewRows
    /\ resp = Idle
    /\ pager = PagerIdle
    /\ WebAtRest

(***************************************************************************)
(* A store that collaborators write while the engine reads it: listings of *)
(* one tenant, each a draft or published, later published, unpublished or  *)
(* deleted.                                                                *)
(***************************************************************************)
LiveRow(id, status) == ListingRow(id, [Published EXCEPT !.status = status])

InitLive ==
    /\ dialect \in Dialects
    /\ \E st \in [ListingIds -> {"draft", "published"}] :
            listings = [i \in ListingIds |-> LiveRow(i, st[i])]
    /\ categories = CategoryRows
    /\ tags = TagRows
    /\ listing_categories = CategoryLinks
    /\ listing_tags = TagLinks
    /\ reviews = ReviewRows
    /\ resp = Idle
    /\ pager = PagerIdle
    /\ WebAtRest

(***************************************************************************)
(* The requests the callers make.                                          *)
(***************************************************************************)
NoPriceRange == [min |-> None, max |-> None]

Point(lat, lon) == Some([latitude |-> lat, longitude |-> lon, radius |-> None])

\* search(tenant_id) with every other argument at its default
DefaultRequest(tenant_id) ==
    [tenant_id |-> tenant_id, query |-> None, filters |-> {}, categories |-> <<>>,
     tags |-> <<>>, location |-> None, price_range |-> NoPriceRange,
     sort_by |-> "created_at", sort_order |-> "desc", limit |-> DefaultLimit,
     offset |-> 0]

FilterSets ==
    {{},
     {[field |-> "status", kind |-> "list", vals |-> {"draft", "published"}],
      [field |-> "color", kind |-> "scalar", vals |-> {"red"}],
      [field |-> "currency", kind |-> "none", vals |-> {}]}}

\* (sort_by, sort_order, limit, offset): each branch of the sort strategy, with a
\* first page, a later page and a page that holds every row
SortPages ==
    {<<"created_at", "desc", 2, 0>>, <<"price", "asc", 1, 1>>, <<"price", "desc", 1, 0>>,
     <<"rating", "desc", 1, 0>>, <<"distance", "asc", 2, 0>>, <<"newest", "asc", 1, 1>>}

\* well-formed requests: every combination of the filter kinds
SearchRequests ==
    {[tenant_id |-> "t1", query |-> q, filters |-> f, categories |-> c, tags |-> t,
      location |-> loc, price_range |-> pr, sort_by |-> s[1], sort_order |-> s[2],
      limit |-> s[3], offset |-> s[4]] :
        q \in {None, Some(MacQuery)},
        f \in FilterSets,
        c \in {<<>>, <<"laptops", "phones">>},
        t \in {<<>>, <<"featured">>},
        loc \in {None, Point(Some(1), Some(1))},
        pr \in {NoPriceRange, [min |-> Some(10), max |-> Some(20)]},
        s \in SortPages}

\* requests the specification calls malformed: each departs from the default in
\* the pagination, the location or the price range
MalformedRequests ==
    {[DefaultRequest(t) EXCEPT !.limit = pg[1], !.offset = pg[2]] :
        t \in Tenants, pg \in {<<0, 0>>, <<0 - 1, 0>>, <<MaxPageSize + 1, 0>>,
                               <<DefaultLimit, 0 - 1>>}}
    \cup {[DefaultRequest(t) EXCEPT !.location = loc, !.sort_by = s] :
            t \in Tenants,
            loc \in {Point(Some(1), None), Point(None, Some(1)), Point(Some(0), Some(1))},
            s \in {"created_at", "distance"}}
    \cup {[DefaultRequest(t) EXCEPT !.price_range = [min |-> Some(20), max |-> Some(10)]] :
            t \in Tenants}

FacetRequests ==
    [tenant_id : Tenants, query : {None, Some(<<>>), Some(MacQuery)}, filters : FilterSets]

\* the filter kinds of search(), each absent or given, in every combination
CombinedRequests ==
    {[DefaultRequest("t1") EXCEPT !.query = q, !.categories = c, !.tags = t,
                                  !.location = loc, !.price_range = pr, !.filters = f] :
        q \in {None, Some(MacQuery)},
        c \in {<<>>, <<"laptops">>},
        t \in {<<>>, <<"featured">>},
        loc \in {None, Point(Some(1), Some(1))},
        pr \in {NoPriceRange, [min |-> Some(10), max |-> None]},
        f \in {{}, {[field |-> "currency", kind |-> "scalar", vals |-> {"USD"}]}}}

\* one filter kind given alone, over the values it takes
SingleRequests ==
    {[DefaultRequest("t1") EXCEPT !.query = Some(<<>>)]}
    \cup {[DefaultRequest("t1") EXCEPT !.categories = c] :
            c \in {<<"phones">>, <<"laptops", "phones">>}}
    \cup {[DefaultRequest("t1") EXCEPT !.tags = t] :
            t \in {<<"new">>, <<"featured", "new">>}}
    \cup {[DefaultRequest("t1") EXCEPT !.price_range = pr] :
            pr \in {[min |-> None, max |-> Some(10)], [min |-> Some(10), max |-> Some(20)],
                    [min |-> Some(20), max |-> Some(20)]}}
    \cup {[DefaultRequest("t1") EXCEPT !.filters = f] :
            f \in {{[field |-> "color", kind |-> "scalar", vals |-> {"red"}]},
                   {[field |-> "color", kind |-> "list", vals |-> {"red", "blue"}]},
                   {[field |-> "currency", kind |-> "list", vals |-> {"EUR", "GBP"}]},
                   {[field |-> "currency", kind |-> "scalar", vals |-> {"USD"}],
                    [field |-> "color", kind |-> "scalar", vals |-> {"red"}]},
                   {[field |-> "metadata", kind |-> "scalar", vals |-> {"x"}]},
                   {[field |-> "metadata", kind |-> "list", vals |-> {"x"}]}}}

FilterRequests == CombinedRequests \cup SingleRequests

\* each branch of the sort strategy in both directions, with no filter and with
\* one, and sort_by="relevance" with no query and with the empty query
SortRequests ==
    {[DefaultRequest("t1") EXCEPT !.sort_by = s, !.sort_order = o, !.price_range = pr] :
        s \in {"relevance", "created_at", "price", "rating", "newest", "metadata"},
        o \in {"asc", "desc"},
        pr \in {NoPriceRange, [min |-> Some(10), max |-> None]}}
    \cup {[DefaultRequest("t1") EXCEPT !.sort_by = "relevance", !.sort_order = o,
                                       !.query = Some(<<>>)] : o \in {"asc", "desc"}}

\* queries that match titles, names, both or, by a wildcard, anything; the limits
\* cut none, some or all of the matches
SuggestRequests ==
    [tenant_id : {"t1"},
     query : {MacQuery, <<"a">>, <<"p">>, <<"_">>, <<>>},
     limit : {0, 1, 2, 10}]

\* calls made while the store is written: one that returns on both stores, one
\* that fails while the query is built and one that fails in SQLite
LiveRequests ==
    {DefaultRequest("t1"),
     [DefaultRequest("t1") EXCEPT !.sort_by = "metadata"],
     [DefaultRequest("t1") EXCEPT !.location = Point(Some(1), Some(1))]}

LiveFacetRequests == [tenant_id : {"t1"}, query : {None}, filters : {{}}]

LiveSuggestRequests == [tenant_id : {"t1"}, query : {<<"a">>}, limit : {1, 10}]

(***************************************************************************)
(* Actions.                                                                *)
(***************************************************************************)
\* a caller runs SearchEngine(db).search(...) and gets the envelope or the exception
search(req) ==
    /\ resp = Idle
    /\ resp' \in SearchOutcomes(DB, req)
    /\ UNCHANGED <<store, pager, web>>

\* a caller runs SearchEngine(db).get_facets(...)
get_facets(req) ==
    /\ resp = Idle
    /\ resp' = Facets(DB, req)
    /\ UNCHANGED <<store, pager, web>>

\* a caller runs SearchEngine(db).get_suggestions(...)
get_suggestions(req) ==
    /\ resp = Idle
    /\ resp' \in Suggestions(DB, req)
    /\ UNCHANGED <<store, pager, web>>

\* search() as the two statements it sends, for a store that is written between
\* them: q.count() ...
search_count(req) ==
    /\ resp = Idle
    /\ resp' = IF BuildFails(req) THEN Raised("search", req, "AttributeError")
               ELSE IF StoreFails(DB, req) THEN Raised("search", req, "StoreError")
               ELSE [op |-> "search", req |-> req, status |-> "counted",
                     total |-> Len(CHOOSE rows \in Arrange(DB, req, RowBag(DB, req)) : TRUE)]
    /\ UNCHANGED <<store, pager, web>>

\* a fetch step that also fills the search_vector of the listings it finds
search_fetch_Indexing ==
    /\ resp # Idle
    /\ resp.status = "counted"
    /\ \E rows \in Arrange(DB, resp.req, RowBag(DB, resp.req)) :
            /\ resp' = EnvelopeOf(resp.req, resp.total, rows)
            /\ listings' = [id \in DOMAIN listings |->
                                IF \E k \in 1..Len(rows) : rows[k] = id
                                THEN [listings[id] EXCEPT
                                        !.search_vector = Some(LowerStr(listings[id].title))]
                                ELSE listings[id]]
    /\ UNCHANGED <<dialect, categories, tags, listing_categories, listing_tags, reviews,
                   pager, web>>

\* ... and q.offset(offset).limit(limit).all(), then the envelope
search_fetch ==
    /\ resp # Idle
    /\ resp.status = "counted"
    /\ \E rows \in Arrange(DB, resp.req, RowBag(DB, resp.req)) :
            resp' = EnvelopeOf(resp.req, resp.total, rows)
    /\ UNCHANGED <<store, pager, web>>

\* collaborators change the store on connections of their own
Publish(id) ==
    /\ id \in DOMAIN listings
    /\ listings[id].status = "draft"
    /\ listings' = [listings EXCEPT ![id].status = "published"]
    /\ UNCHANGED <<dialect, categories, tags, listing_categories, listing_tags, reviews,
                   resp, pager, web>>

Unpublish(id) ==
    /\ id \in DOMAIN listings
    /\ listings[id].status = "published"
    /\ listings' = [listings EXCEPT ![id].status = "draft"]
    /\ UNCHANGED <<dialect, categories, tags, listing_categories, listing_tags, reviews,
                   resp, pager, web>>

\* the listing goes with its association rows and its reviews
Delete(id) ==
    /\ id \in DOMAIN listings
    /\ listings' = [i \in DOMAIN listings \ {id} |-> listings[i]]
    /\ listing_categories' = {link \in listing_categories : link[1] # id}
    /\ listing_tags' = {link \in listing_tags : link[1] # id}
    /\ reviews' = {r \in reviews : r.listing_id # id}
    /\ UNCHANGED <<dialect, categories, tags, resp, pager, web>>

\* the caller takes the outcome; the engine object is dropped with the request
Return ==
    /\ resp # Idle
    /\ resp.status \in {"ok", "error"}
    /\ resp' = Idle
    /\ UNCHANGED <<store, pager, web>>

(***************************************************************************)
(* A caller that reads a result set page by page (test_pagination): the    *)
(* same request at offset 0, limit, 2*limit, ... while has_more is set.    *)
(***************************************************************************)
PagingRequests ==
    {[DefaultRequest("t1") EXCEPT !.categories = c, !.sort_by = s, !.limit = n] :
        c \in {<<>>, <<"laptops">>, <<"laptops", "phones">>},
        s \in {"created_at", "price"},
        n \in {1, 2}}

StartPaging(req) ==
    /\ pager = PagerIdle
    /\ pager' = [state |-> "paging", req |-> req, windows |-> <<>>]
    /\ UNCHANGED <<store, resp, web>>

NextWindow ==
    /\ pager.state = "paging"
    /\ \E out \in SearchOutcomes(DB, [pager.req EXCEPT
                        !.offset = Len(pager.windows) * pager.req.limit]) :
            pager' = IF out.status = "ok"
                     THEN [pager EXCEPT !.windows = Append(@, out.results),
                                        !.state = IF out.has_more THEN "paging" ELSE "done"]
                     ELSE [pager EXCEPT !.state = "failed"]
    /\ UNCHANGED <<store, resp, web>>

ClosePager ==
    /\ pager.state \in {"done", "failed"}
    /\ pager' = PagerIdle
    /\ UNCHANGED <<store, resp, web>>

(***************************************************************************)
(* Specifications.                                                         *)
(***************************************************************************)
Next ==
    \/ \E req \in SearchRequests \cup MalformedRequests : search(req)
    \/ Return

Spec == Init /\ [][Next]_vars

NextFacets ==
    \/ \E req \in FacetRequests : get_facets(req)
    \/ Return

SpecFacets == Init /\ [][NextFacets]_vars

NextPaging ==
    \/ \E req \in PagingRequests : StartPaging(req)
    \/ NextWindow
    \/ ClosePager

SpecPaging == Init /\ [][NextPaging]_vars

NextMalformed ==
    \/ \E req \in MalformedRequests : search(req)
    \/ Return

SpecMalformed == Init /\ [][NextMalformed]_vars

NextFilters ==
    \/ \E req \in FilterRequests : search(req)
    \/ Return

SpecFilters == InitFilters /\ [][NextFilters]_vars

NextSorts ==
    \/ \E req \in SortRequests : search(req)
    \/ Return

SpecSorts == InitSorts /\ [][NextSorts]_vars

NextSuggest ==
    \/ \E req \in SuggestRequests : get_suggestions(req)
    \/ Return

SpecSuggest == InitSuggest /\ [][NextSuggest]_vars

NextLive ==
    \/ \E id \in ListingIds : Publish(id) \/ Unpublish(id) \/ Delete(id)
    \/ \E req \in LiveRequests : search_count(req)
    \/ search_fetch
    \/ \E req \in LiveFacetRequests : get_facets(req)
    \/ \E req \in LiveSuggestRequests : get_suggestions(req)
    \/ Return

SpecLive == InitLive /\ [][NextLive]_vars

(***************************************************************************)
(* Inserts into the listings table, as test_listing_tenant_slug_unique     *)
(* makes them: db.add(listing); db.commit().  The table carries            *)
(* UniqueConstraint("tenant_id", "slug").                                  *)
(***************************************************************************)
MaxRows == 3

InsertRequests ==
    [tenant_id : Tenants, slug : {"unique-slug", "other-slug"},
     title : {"Listing 1", "Listing 2"}]

NewListing(req) ==
    [tenant_id |-> req.tenant_id, title |-> req.title, slug |-> req.slug,
     status |-> "draft", is_public |-> TRUE]

\* a table without the constraint
uq_listing_tenant_slug_Dropped(rows, row) == TRUE

\* the table accepts the row
uq_listing_tenant_slug(rows, row) ==
    \A id \in DOMAIN rows :
        rows[id].tenant_id # row.tenant_id \/ rows[id].slug # row.slug

InitInsert ==
    /\ dialect \in Dialects
    /\ listings = <<>>
    /\ categories = <<>>
    /\ tags = <<>>
    /\ listing_categories = {}
    /\ listing_tags = {}
    /\ reviews = {}
    /\ resp = Idle
    /\ pager = PagerIdle
    /\ WebAtRest

add_listing(req) ==
    /\ resp = Idle
    /\ \/ Cardinality(DOMAIN listings) < MaxRows
       \/ ~uq_listing_tenant_slug(listings, NewListing(req))
    /\ IF uq_listing_tenant_slug(listings, NewListing(req))
       THEN /\ listings' = SetItem(listings, Cardinality(DOMAIN listings) + 1,
                                   NewListing(req))
            /\ resp' = [op |-> "insert", req |-> req, status |-> "ok",
                        id |-> Cardinality(DOMAIN listings) + 1]
       ELSE /\ listings' = listings
            /\ resp' = Raised("insert", req, "IntegrityError")
    /\ UNCHANGED <<dialect, categories, tags, listing_categories, listing_tags, reviews,
                   pager, web>>

NextInsert ==
    \/ \E req \in InsertRequests : add_listing(req)
    \/ Return

SpecInsert == InitInsert /\ [][NextInsert]_vars

(***************************************************************************)
(* One request going through the middleware stack, one dispatch at a time. *)
(* request.at is the place in the stack of the dispatch that runs next;    *)
(* past the last middleware the router calls the endpoint.                 *)
(***************************************************************************)
NewRequest(req) ==
    [req |-> req, at |-> 1, state |-> [tenant_id |-> None], client_id |-> None,
     exc |-> None, response |-> None, called |-> FALSE]

Running == request # NoRequest /\ request.exc = None /\ request.response = None

At(cls) ==
    /\ Running
    /\ request.at <= Len(MiddlewareStack)
    /\ MiddlewareStack[request.at] = cls

\* the dispatch frames the request went through
Entered(cls) ==
    \E k \in 1..Len(MiddlewareStack) : MiddlewareStack[k] = cls /\ k < request.at

\* a response on its way out: every dispatch it passes adds its headers
Outward(status) ==
    [status |-> status,
     x_tenant_id |->
        IF Entered("TenantMiddleware") /\ ~_should_skip_tenant_resolution(request.req)
        THEN request.state.tenant_id ELSE None,
     x_ratelimit_remaining |->
        IF Entered("RateLimitMiddleware") /\ ~_should_skip_rate_limiting(request.req)
        THEN Some(_get_remaining_requests(rate_limit_store, Get(request.client_id),
                                          int(time)))
        ELSE None]

Receive(req) ==
    /\ request = NoRequest
    /\ request' = NewRequest(req)
    /\ UNCHANGED <<store, resp, pager, tenants, rate_limit_store, admitted, time>>

process_request ==
    /\ At("process_request")
    /\ request' = [request EXCEPT !.at = @ + 1]
    /\ UNCHANGED <<store, resp, pager, tenants, rate_limit_store, admitted, time>>

AuditDispatch ==
    /\ At("AuditMiddleware")
    /\ request' = [request EXCEPT !.at = @ + 1]
    /\ UNCHANGED <<store, resp, pager, tenants, rate_limit_store, admitted, time>>

RateLimitDispatch ==
    /\ At("RateLimitMiddleware")
    /\ IF _should_skip_rate_limiting(request.req)
       THEN /\ request' = [request EXCEPT !.at = @ + 1]
            /\ UNCHANGED <<rate_limit_store, admitted>>
       ELSE LET client_id == _get_client_identifier(request.req, request.state)
                check == _check_rate_limit(rate_limit_store, client_id, int(time))
            IN  /\ rate_limit_store' = check.limiter
                /\ IF check.allowed
                   THEN /\ admitted' = [admitted EXCEPT ![client_id][int(time)] = @ + 1]
                        /\ request' = [request EXCEPT !.client_id = Some(client_id),
                                                      !.at = @ + 1]
                   ELSE /\ admitted' = admitted
                        /\ request' = [request EXCEPT !.client_id = Some(client_id),
                                                      !.exc = Some(429)]
    /\ UNCHANGED <<store, resp, pager, tenants, time>>

TenantDispatch ==
    /\ At("TenantMiddleware")
    /\ LET tenant_id == _extract_tenant_id(request.req)
           tenant == IF tenant_id = None THEN None
                     ELSE _validate_tenant(tenants, dialect, Get(tenant_id))
       IN  request' =
             IF _should_skip_tenant_resolution(request.req)
             THEN [request EXCEPT !.at = @ + 1]
             ELSE IF tenant_id = None THEN [request EXCEPT !.exc = Some(400)]
             ELSE IF tenant = None THEN [request EXCEPT !.exc = Some(404)]
             ELSE [request EXCEPT !.state.tenant_id = tenant, !.at = @ + 1]
    /\ UNCHANGED <<store, resp, pager, tenants, rate_limit_store, admitted, time>>

CORSDispatch ==
    /\ At("CORSMiddleware")
    /\ request' = [request EXCEPT !.at = @ + 1]
    /\ UNCHANGED <<store, resp, pager, tenants, rate_limit_store, admitted, time>>

TrustedHostDispatch ==
    /\ At("TrustedHostMiddleware")
    /\ request' = IF AllowedHost(request.req.host)
                  THEN [request EXCEPT !.at = @ + 1]
                  ELSE [request EXCEPT !.response = Some(Outward(400))]
    /\ UNCHANGED <<store, resp, pager, tenants, rate_limit_store, admitted, time>>

\* the router calls the handler of the path
Endpoint ==
    /\ Running
    /\ request.at = Len(MiddlewareStack) + 1
    /\ request' = [request EXCEPT !.called = TRUE, !.response = Some(Outward(200))]
    /\ UNCHANGED <<store, resp, pager, tenants, rate_limit_store, admitted, time>>

\* an exception raised by a dispatch leaves the stack above the ExceptionMiddleware,
\* which sits between the last middleware and the router: no frame on its way
\* catches it, and ServerErrorMiddleware answers with general_exception_handler
ServerError ==
    /\ request # NoRequest
    /\ request.exc # None
    /\ request.response = None
    /\ request' = [request EXCEPT
                    !.response = Some([status |-> 500, x_tenant_id |-> None,
                                       x_ratelimit_remaining |-> None])]
    /\ UNCHANGED <<store, resp, pager, tenants, rate_limit_store, admitted, time>>

Send ==
    /\ request # NoRequest
    /\ request.response # None
    /\ request' = NoRequest
    /\ UNCHANGED <<store, resp, pager, tenants, rate_limit_store, admitted, time>>

\* time.time() moves on
Tick ==
    /\ time < MaxTime
    /\ time' = time + 1
    /\ UNCHANGED <<store, resp, pager, tenants, rate_limit_store, admitted, request>>

Hosts == {<<"localhost">>, <<"acme", "run", "app">>, <<"127", "0", "0", "1">>}

TenantRequests ==
    [path : {ListingsPath, HealthPath, HealthzPath},
     x_tenant_id : {None, Some("t1"), Some("t2"), Some("t9")},
     host : Hosts \cup {<<"acme", "example", "com">>},
     tenant_id : {None, Some("t1")},
     forwarded_for : {None},
     client : {Some("ip1")}]

RateRequests ==
    [path : {ListingsPath, HealthPath},
     x_tenant_id : {Some("t1")},
     host : {<<"localhost">>},
     tenant_id : {None},
     forwarded_for : {None, Some(<<"ip2", "ip1">>)},
     client : {Some("ip1")}]

InitWeb ==
    /\ dialect \in Dialects
    /\ listings = <<>>
    /\ categories = <<>>
    /\ tags = <<>>
    /\ listing_categories = {}
    /\ listing_tags = {}
    /\ reviews = {}
    /\ resp = Idle
    /\ pager = PagerIdle
    /\ \E status2 \in {"active", "suspended"} : tenants = TenantRows(status2)
    /\ rate_limit_store = <<>>
    /\ admitted = NoAdmissions
    /\ time = 0
    /\ request = NoRequest

Stack ==
    \/ process_request
    \/ AuditDispatch
    \/ RateLimitDispatch
    \/ TenantDispatch
    \/ CORSDispatch
    \/ TrustedHostDispatch
    \/ Endpoint
    \/ ServerError
    \/ Send

NextTenant ==
    \/ \E req \in TenantRequests : Receive(req)
    \/ Stack

SpecTenant == InitWeb /\ [][NextTenant]_vars

NextRateLimit ==
    \/ \E req \in RateRequests : Receive(req)
    \/ Stack
    \/ Tick

InitRateLimit ==
    /\ InitWeb
    /\ dialect = "postgresql"
    /\ tenants = TenantRows("active")

SpecRateLimit == InitRateLimit /\ [][NextRateLimit]_vars


(***************************************************************************)
(* What the claims speak of, stated apart from the operators above.        *)
(***************************************************************************)
\* the eligibility rule of the specification: tenant-matched, public, published
Visible(l, tenant_id) ==
    l.tenant_id = tenant_id /\ l.is_public /\ l.status = "published"

VisibleIds(db, tenant_id) ==
    {id \in DOMAIN db.listings : Visible(db.listings[id], tenant_id)}

\* the store with every listing outside ids deleted
Keep(db, ids) ==
    [db EXCEPT !.listings = [id \in ids \cap DOMAIN db.listings |-> db.listings[id]]]

RECURSIVE BagTotal(_, _)
BagTotal(bag, ids) ==
    IF ids = {} THEN 0
    ELSE LET i == CHOOSE x \in ids : TRUE IN bag[i] + BagTotal(bag, ids \ {i})

\* the number of rows search(req) counts on the store db
Total(db, req) == BagTotal(RowBag(db, req), DOMAIN db.listings)

SearchReturned == resp.op = "search" /\ resp.status = "ok"

FacetsReturned == resp.op = "get_facets" /\ resp.status = "ok"

(***************************************************************************)
(* C1: every listing search() returns is of the requested tenant, public   *)
(* and published, whatever the parameters; a listing that is not is never  *)
(* counted in total: total is what it is with those listings deleted.      *)
(***************************************************************************)
C1_EligibleOnly ==
    SearchReturned =>
        /\ \A k \in 1..Len(resp.results) :
                Visible(listings[resp.results[k]], resp.req.tenant_id)
        /\ resp.total = Total(Keep(DB, VisibleIds(DB, resp.req.tenant_id)), resp.req)

\* a search with a category filter returned listing 1 while listing 2, of the same
\* tenant and in a named category, is a draft
C1_Witness ==
    /\ SearchReturned
    /\ resp.req.categories # <<>>
    /\ resp.results = <<1>>
    /\ resp.total > 0
    /\ listings[2].tenant_id = resp.req.tenant_id
    /\ listings[2].status = "draft"

(***************************************************************************)
(* C2: in get_facets() the count of each category and of each tag is the   *)
(* number of eligible listings (tenant-matched, public, published)         *)
(* associated with it.                                                     *)
(***************************************************************************)
C2_FacetCountsEligible ==
    FacetsReturned =>
        LET t == resp.req.tenant_id IN
        /\ \A f \in resp.categories :
                f.count = Cardinality({id \in VisibleIds(DB, t) :
                            \E c \in DOMAIN categories :
                                /\ categories[c].tenant_id = t
                                /\ categories[c].slug = f.slug
                                /\ <<id, c>> \in listing_categories})
        /\ \A f \in resp.tags :
                f.count = Cardinality({id \in VisibleIds(DB, t) :
                            \E g \in DOMAIN tags :
                                /\ tags[g].tenant_id = t
                                /\ tags[g].slug = f.slug
                                /\ <<id, g>> \in listing_tags})

(***************************************************************************)
(* C3: get_facets(tenant, query, filters) counts only listings that        *)
(* search(tenant, query, filters) returns: deleting every other listing    *)
(* from the store leaves the facets as they are.  Stated for stores in     *)
(* which every listing is eligible, where only the free-text and the       *)
(* field-filter stages can tell the listings apart.                        *)
(***************************************************************************)
SearchMatched(db, req) ==
    {id \in DOMAIN db.listings :
        RowBag(db, [DefaultRequest(req.tenant_id) EXCEPT
                        !.query = req.query, !.filters = req.filters])[id] > 0}

C3_FacetsOverSearchMatches ==
    (FacetsReturned /\ VisibleIds(DB, resp.req.tenant_id) = DOMAIN listings) =>
        LET kept == Facets(Keep(DB, SearchMatched(DB, resp.req)), resp.req)
        IN  /\ resp.categories = kept.categories
            /\ resp.tags = kept.tags
            /\ resp.price_range = kept.price_range

(***************************************************************************)
(* C4: when no eligible listing has a price, get_facets() returns          *)
(* price_range as null, not an object of zeros.                            *)
(***************************************************************************)
C4_NoPriceNoRange ==
    (/\ FacetsReturned
     /\ \A id \in VisibleIds(DB, resp.req.tenant_id) : listings[id].price = None)
        => resp.price_range = None

(***************************************************************************)
(* C5: with no query and no filters, price_range.min and .max of           *)
(* get_facets(tenant) are the least and the greatest price among the       *)
(* listings search(tenant) returns (when one of them has a price).         *)
(***************************************************************************)
PricesOf(ids) == {Get(listings[id].price) : id \in {i \in ids : listings[i].price # None}}

C5_PriceRangeOfSearch ==
    (FacetsReturned /\ resp.req.query = None /\ resp.req.filters = {}) =>
        \A out \in SearchOutcomes(DB, DefaultRequest(resp.req.tenant_id)) :
            LET ps == PricesOf({out.results[k] : k \in 1..Len(out.results)})
            IN  ps # {} =>
                    /\ resp.price_range # None
                    /\ Get(resp.price_range).min \in ps
                    /\ Get(resp.price_range).max \in ps
                    /\ \A p \in ps : Get(resp.price_range).min <= p
                                     /\ p <= Get(resp.price_range).max

\* listing 1, the cheaper one, is a draft of the tenant; the facets report the
\* price of listing 2 alone
C5_Witness ==
    /\ FacetsReturned
    /\ resp.req.query = None
    /\ resp.req.filters = {}
    /\ listings[1].tenant_id = resp.req.tenant_id
    /\ listings[1].status = "draft"
    /\ VisibleIds(DB, resp.req.tenant_id) = {2}
    /\ resp.price_range = Some([min |-> 20, max |-> 20, avg |-> 20])

(***************************************************************************)
(* C6: over the windows offset = 0, limit, 2*limit, ... of one request on  *)
(* an unchanged store, each matching listing is returned in exactly one    *)
(* window, and the windows' lengths sum to the number of matching          *)
(* listings.                                                               *)
(***************************************************************************)
Matching(db, req) == {id \in DOMAIN db.listings : RowBag(db, req)[id] > 0}

RECURSIVE SumLen(_)
SumLen(ws) == IF ws = <<>> THEN 0 ELSE Len(Head(ws)) + SumLen(Tail(ws))

Holds(w, id) == \E k \in 1..Len(w) : w[k] = id

C6_WindowsPartition ==
    pager.state = "done" =>
        /\ \A id \in Matching(DB, pager.req) :
                Cardinality({n \in 1..Len(pager.windows) : Holds(pager.windows[n], id)}) = 1
        /\ SumLen(pager.windows) = Cardinality(Matching(DB, pager.req))

(***************************************************************************)
(* C7: in the envelope, total is the number of listings matching the       *)
(* predicates, results holds min(limit, max(0, total - offset)) listings,  *)
(* and has_more is true iff offset + limit < total.  Stated for            *)
(* well-formed pagination and the sorts that add no join.                  *)
(***************************************************************************)
C7_EnvelopeExact ==
    (/\ SearchReturned
     /\ resp.req.limit > 0 /\ resp.req.limit <= MaxPageSize /\ resp.req.offset >= 0
     /\ resp.req.sort_by # "rating") =>
        /\ resp.total = Cardinality(Matching(DB, resp.req))
        /\ Len(resp.results) = Min2(resp.req.limit, Max2(0, resp.total - resp.req.offset))
        /\ resp.has_more = (resp.req.offset + resp.req.limit < resp.total)

(***************************************************************************)
(* C8: search() with a negative offset, a limit <= 0 or a limit above the  *)
(* maximum page size fails with InvalidQueryError.                         *)
(***************************************************************************)
C8_BadPaginationRejected ==
    (/\ resp.op = "search"
     /\ \/ resp.req.offset < 0
        \/ resp.req.limit <= 0
        \/ resp.req.limit > MaxPageSize) =>
        resp.status = "error" /\ resp.error = "InvalidQueryError"

(***************************************************************************)
(* C9: search() with a location that gives one of latitude and longitude   *)
(* without the other fails with InvalidQueryError.                         *)
(***************************************************************************)
C9_HalfLocationRejected ==
    (/\ resp.op = "search"
     /\ resp.req.location # None
     /\ (Get(resp.req.location).latitude = None) # (Get(resp.req.location).longitude = None)) =>
        resp.status = "error" /\ resp.error = "InvalidQueryError"

(***************************************************************************)
(* C10: search() with a price_range whose min is greater than its max      *)
(* fails with InvalidQueryError.                                           *)
(***************************************************************************)
C10_InvertedPriceRangeRejected ==
    (/\ resp.op = "search"
     /\ resp.req.price_range.min # None
     /\ resp.req.price_range.max # None
     /\ Get(resp.req.price_range.min) > Get(resp.req.price_range.max)) =>
        resp.status = "error" /\ resp.error = "InvalidQueryError"

(***************************************************************************)
(* What the filter claims speak of.                                        *)
(***************************************************************************)
Kinds == {"query", "categories", "tags", "location", "price_range", "filters"}

\* the request gives no filter kind outside kinds
OnlyGiven(req, kinds) ==
    \A k \in Kinds \ kinds : req[k] = DefaultRequest(req.tenant_id)[k]

\* the listings an envelope returns
Returned(out) == {out.results[k] : k \in 1..Len(out.results)}

Slugs(s) == {s[k] : k \in 1..Len(s)}

\* the listing is associated with a tag, a category, whose slug is in S
TaggedIn(id, S) ==
    \E g \in DOMAIN tags : <<id, g>> \in listing_tags /\ tags[g].slug \in S

CategorizedIn(id, S) ==
    \E c \in DOMAIN categories :
        <<id, c>> \in listing_categories /\ categories[c].slug \in S

(***************************************************************************)
(* C11: category and tag filters are OR over the given slugs: an eligible  *)
(* listing is returned by search(tags=S) iff it is associated with at      *)
(* least one tag whose slug is in S, and likewise for categories.          *)
(***************************************************************************)
C11_SlugFiltersAreUnions ==
    (SearchReturned /\ OnlyGiven(resp.req, {"categories", "tags"})) =>
        Returned(resp) =
            {id \in VisibleIds(DB, resp.req.tenant_id) :
                /\ resp.req.tags # <<>> => TaggedIn(id, Slugs(resp.req.tags))
                /\ resp.req.categories # <<>> =>
                        CategorizedIn(id, Slugs(resp.req.categories))}

\* listing 1 carries the tag "featured" alone: tags=[featured, new] returns it and
\* tags=[new] returns listing 2 without it
C11_Witness ==
    /\ SearchReturned
    /\ resp.req.tags = <<"featured", "new">>
    /\ resp.req.categories = <<>>
    /\ Returned(resp) = {1, 2}
    /\ ~TaggedIn(1, {"new"})
    /\ \A out \in SearchOutcomes(DB, [resp.req EXCEPT !.tags = <<"new">>]) :
            out.status = "ok" /\ Returned(out) = {2}

(***************************************************************************)
(* C12: a category or tag slug filter of search(tenant T, ...) matches     *)
(* only through categories and tags of T: every listing returned for       *)
(* categories=S is in a category of T whose slug is in S, and every        *)
(* listing returned for tags=S carries a tag of T whose slug is in S.      *)
(***************************************************************************)
C12_SlugFiltersWithinTenant ==
    (SearchReturned /\ OnlyGiven(resp.req, {"categories", "tags"})) =>
        \A id \in Returned(resp) :
            /\ resp.req.categories # <<>> =>
                    \E c \in DOMAIN categories :
                        /\ categories[c].tenant_id = resp.req.tenant_id
                        /\ categories[c].slug \in Slugs(resp.req.categories)
                        /\ <<id, c>> \in listing_categories
            /\ resp.req.tags # <<>> =>
                    \E g \in DOMAIN tags :
                        /\ tags[g].tenant_id = resp.req.tenant_id
                        /\ tags[g].slug \in Slugs(resp.req.tags)
                        /\ <<id, g>> \in listing_tags

(***************************************************************************)
(* C13: with a price_range filter an eligible listing is returned iff its  *)
(* price is not null, min <= price when min is set and price <= max when   *)
(* max is set: a price equal to a bound is inside the range, and a null    *)
(* price is outside whenever a bound is set.                               *)
(***************************************************************************)
InRange(price, price_range) ==
    /\ price # None
    /\ price_range.min # None => Get(price_range.min) <= Get(price)
    /\ price_range.max # None => Get(price) <= Get(price_range.max)

C13_PriceRangeInclusive ==
    (/\ SearchReturned
     /\ OnlyGiven(resp.req, {"price_range"})
     /\ resp.req.price_range # NoPriceRange) =>
        Returned(resp) =
            {id \in VisibleIds(DB, resp.req.tenant_id) :
                InRange(listings[id].price, resp.req.price_range)}

\* a listing priced at min and a listing priced at max are both returned, and with
\* the same bounds a listing without a price would not be
C13_Witness ==
    /\ SearchReturned
    /\ resp.req.price_range = [min |-> Some(10), max |-> Some(20)]
    /\ listings[1].price = Some(20)
    /\ listings[2].price = Some(10)
    /\ resp.results = <<2, 1>>
    /\ \A out \in SearchOutcomes([DB EXCEPT !.listings[1].price = None], resp.req) :
            out.status = "ok" /\ out.results = <<2>>

(***************************************************************************)
(* C14: the listings search() matches with several filter kinds given      *)
(* together are the intersection of the listings it matches with each      *)
(* kind given alone.                                                       *)
(***************************************************************************)
\* the request with one of its filter kinds kept and the others dropped
Alone(req, kind) == [DefaultRequest(req.tenant_id) EXCEPT ![kind] = req[kind]]

GivenKinds(req) == {k \in Kinds : req[k] # DefaultRequest(req.tenant_id)[k]}

C14_FiltersIntersect ==
    SearchReturned =>
        \A id \in ListingIds :
            id \in Returned(resp) <=>
                \A kind \in Kinds :
                    \A out \in SearchOutcomes(DB, Alone(resp.req, kind)) :
                        out.status = "ok" /\ id \in Returned(out)

\* all six kinds are given; the price range alone and the category alone each
\* match both listings, the six together match listing 1 only
C14_Witness ==
    /\ SearchReturned
    /\ GivenKinds(resp.req) = Kinds
    /\ Returned(resp) = {1}
    /\ \A out \in SearchOutcomes(DB, Alone(resp.req, "price_range")) :
            Returned(out) = {1, 2}
    /\ \A out \in SearchOutcomes(DB, Alone(resp.req, "categories")) :
            Returned(out) = {1, 2}
    /\ \A out \in SearchOutcomes(DB, Alone(resp.req, "filters")) :
            Returned(out) = {1}

(***************************************************************************)
(* What the sort claims speak of.                                          *)
(***************************************************************************)
\* the results and the total of the outcomes of a request
Answers(db, req) ==
    {<<out.status, IF out.status = "ok" THEN out.results ELSE <<>>,
       IF out.status = "ok" THEN out.total ELSE 0>> : out \in SearchOutcomes(db, req)}

\* results holds the listings newest first
NewestFirst(results) ==
    \A i, j \in 1..Len(results) :
        i < j => listings[results[i]].created_at >= listings[results[j]].created_at

(***************************************************************************)
(* C15: search(sort_by="relevance") with no query string returns the       *)
(* listings in the same order as search(sort_by="created_at",              *)
(* sort_order="desc") with the same filters: newest first, and the orders  *)
(* the one request can return are the orders the other can.                *)
(***************************************************************************)
C15_RelevanceWithoutQuery ==
    (/\ resp.op = "search"
     /\ resp.req.sort_by = "relevance"
     /\ ~TruthyText(resp.req.query)) =>
        /\ resp.status = "ok"
        /\ NewestFirst(resp.results)
        /\ Answers(DB, resp.req) =
                Answers(DB, [resp.req EXCEPT !.sort_by = "created_at",
                                             !.sort_order = "desc"])

\* sort_by="relevance", sort_order="asc", no query: listing 1, the newer one, comes
\* first, as it does under created_at descending
C15_Witness ==
    /\ SearchReturned
    /\ resp.req.sort_by = "relevance"
    /\ resp.req.sort_order = "asc"
    /\ resp.req.query = None
    /\ listings[1].created_at > listings[2].created_at
    /\ resp.results = <<1, 2>>
    /\ Answers(DB, [resp.req EXCEPT !.sort_by = "created_at", !.sort_order = "desc"])
            = {<<"ok", <<1, 2>>, 2>>}

(***************************************************************************)
(* C16: search() with a sort_by that is not "relevance", "distance",       *)
(* "rating" or a listing field never fails: it returns the matching        *)
(* listings newest first, whatever sort_order is.                          *)
(***************************************************************************)
C16_UnknownSortFallsBack ==
    (/\ resp.op = "search"
     /\ resp.req.sort_by \notin {"relevance", "distance", "rating"} \cup ListingFields) =>
        /\ resp.status = "ok"
        /\ NewestFirst(resp.results)
        /\ Answers(DB, resp.req) =
                Answers(DB, [resp.req EXCEPT !.sort_by = "created_at",
                                             !.sort_order = "desc"])

(***************************************************************************)
(* C17: a key of the filters mapping that is not a field of the listing    *)
(* schema is ignored silently: search() raises no error and returns the    *)
(* results and the total it returns without that key; a key that is a      *)
(* listing field requires equality, or membership when the value is a      *)
(* list.                                                                   *)
(***************************************************************************)
KnownFilters(req) == {f \in req.filters : f.field \in ListingFields}

Satisfies(l, f) ==
    IF f.kind = "list"
    THEN FieldValue(l, f.field) # None /\ Get(FieldValue(l, f.field)) \in f.vals
    ELSE FieldValue(l, f.field) = f.vals

C17_FilterKeys ==
    (/\ resp.op = "search"
     /\ OnlyGiven(resp.req, {"filters"})
     /\ resp.req.filters # {}) =>
        /\ resp.status = "ok"
        /\ Answers(DB, resp.req) =
                Answers(DB, [resp.req EXCEPT !.filters = KnownFilters(resp.req)])
        /\ Returned(resp) =
                {id \in VisibleIds(DB, resp.req.tenant_id) :
                    \A f \in KnownFilters(resp.req) : Satisfies(listings[id], f)}

(***************************************************************************)
(* C18: with sort_by="rating", search() returns the same set of listings   *)
(* and the same total as with another sort key, ordered by the average     *)
(* rating of the approved reviews, highest first; a listing with no        *)
(* approved review is returned too, after every listing that has one.      *)
(***************************************************************************)
Rated(id) == \E r \in reviews : r.listing_id = id /\ r.status = "approved"

C18_RatingSortKeepsListings ==
    (resp.op = "search" /\ resp.req.sort_by = "rating") =>
        /\ resp.status = "ok"
        /\ \A out \in SearchOutcomes(DB, [resp.req EXCEPT !.sort_by = "created_at"]) :
                /\ out.status = "ok"
                /\ Returned(resp) = Returned(out)
                /\ resp.total = out.total
        /\ \A i, j \in 1..Len(resp.results) :
                i < j =>
                    /\ Rated(resp.results[j]) => Rated(resp.results[i])
                    /\ ~AvgGreater(DB, resp.results[j], resp.results[i])

(***************************************************************************)
(* C19: with sort_by naming a listing field, the results of search() are   *)
(* ordered by that field, non-increasing when sort_order is "desc" and     *)
(* non-decreasing when it is "asc" (over the listings that have a value    *)
(* in the field), and the total is the total of the default sort.          *)
(***************************************************************************)
Valued(id, field) == FieldValue(listings[id], field) # None

ValueOf(id, field) == Get(FieldValue(listings[id], field))

C19_FieldSortOrdered ==
    (SearchReturned /\ resp.req.sort_by \in ListingFields) =>
        /\ \A i, j \in 1..Len(resp.results) :
                (/\ i < j
                 /\ Valued(resp.results[i], resp.req.sort_by)
                 /\ Valued(resp.results[j], resp.req.sort_by)) =>
                    IF resp.req.sort_order = "desc"
                    THEN ValueOf(resp.results[i], resp.req.sort_by)
                            >= ValueOf(resp.results[j], resp.req.sort_by)
                    ELSE ValueOf(resp.results[i], resp.req.sort_by)
                            <= ValueOf(resp.results[j], resp.req.sort_by)
        /\ \A out \in SearchOutcomes(DB, [resp.req EXCEPT !.sort_by = "newest"]) :
                out.status = "ok" /\ out.total = resp.total

\* sort_by="price", sort_order="asc": listing 2 at 10 comes before listing 1 at 20
\* although listing 1 is the newer one
C19_Witness ==
    /\ SearchReturned
    /\ resp.req.sort_by = "price"
    /\ resp.req.sort_order = "asc"
    /\ listings[1].price = Some(20)
    /\ listings[2].price = Some(10)
    /\ listings[1].created_at > listings[2].created_at
    /\ resp.results = <<2, 1>>
    /\ resp.total = 2

(***************************************************************************)
(* C20: with a non-empty query an eligible listing is returned by search() *)
(* iff the query matches its search surface of title, description,         *)
(* address, city and state: a listing whose title contains the query is    *)
(* returned, a listing no part of whose surface contains it is not; with   *)
(* an empty or absent query every eligible listing is returned.            *)
(***************************************************************************)
Surface(l) == {Some(l.title), l.description, l.address, l.city, l.state} \ {None}

\* some part of the surface contains the query, case apart
SurfaceContains(l, query) ==
    \E part \in Surface(l) : Contains(LowerStr(Get(part)), LowerStr(query))

\* the title contains the query, as a substring and word for word
TitleContains(l, query) ==
    /\ Contains(LowerStr(l.title), LowerStr(query))
    /\ Words(query) # {}
    /\ Words(query) \subseteq Words(l.title)

C20_QueryMatchesSurface ==
    (resp.op = "search" /\ OnlyGiven(resp.req, {"query"})) =>
        /\ resp.status = "ok"
        /\ IF TruthyText(resp.req.query)
           THEN \A id \in VisibleIds(DB, resp.req.tenant_id) :
                    /\ TitleContains(listings[id], Get(resp.req.query))
                            => id \in Returned(resp)
                    /\ id \in Returned(resp)
                            => SurfaceContains(listings[id], Get(resp.req.query))
           ELSE Returned(resp) = VisibleIds(DB, resp.req.tenant_id)

(***************************************************************************)
(* C21: whenever the location gives both latitude and longitude, 0         *)
(* included, every listing search() returns has a latitude and a longitude *)
(* and lies within radius (25 when not given) of the point.                *)
(***************************************************************************)
WithinRadius(l, point) ==
    /\ l.latitude # None
    /\ l.longitude # None
    /\ LET r == IF point.radius = None THEN DefaultRadius ELSE Get(point.radius)
           dy == Get(l.latitude) - Get(point.latitude)
           dx == Get(l.longitude) - Get(point.longitude)
       IN  dy * dy + dx * dx <= r * r

C21_LocationFilterApplied ==
    (/\ SearchReturned
     /\ resp.req.location # None
     /\ Get(resp.req.location).latitude # None
     /\ Get(resp.req.location).longitude # None) =>
        \A id \in Returned(resp) : WithinRadius(listings[id], Get(resp.req.location))

(***************************************************************************)
(* C22: get_suggestions(tenant, query, limit) returns at most limit        *)
(* strings, none of them twice, and each of them is the title of an        *)
(* eligible listing of the tenant that contains the query or the name of   *)
(* an active category of the tenant that contains the query.               *)
(***************************************************************************)
SuggestionsReturned == resp.op = "get_suggestions" /\ resp.status = "ok"

HasQuery(text, query) == Contains(LowerStr(text), LowerStr(query))

TitleSource(string, req) ==
    \E id \in VisibleIds(DB, req.tenant_id) :
        listings[id].title = string /\ HasQuery(string, req.query)

NameSource(string, req) ==
    \E c \in DOMAIN categories :
        /\ categories[c].tenant_id = req.tenant_id
        /\ categories[c].is_active
        /\ Chars(categories[c].name) = string
        /\ HasQuery(string, req.query)

C22_SuggestionsSound ==
    SuggestionsReturned =>
        /\ Len(resp.suggestions) <= resp.req.limit
        /\ \A i, j \in 1..Len(resp.suggestions) :
                i # j => resp.suggestions[i] # resp.suggestions[j]
        /\ \A i \in 1..Len(resp.suggestions) :
                \/ TitleSource(resp.suggestions[i], resp.req)
                \/ NameSource(resp.suggestions[i], resp.req)

(***************************************************************************)
(* C23: in the list get_suggestions() returns, the suggestions drawn from  *)
(* listing titles come before those drawn from category names only, so a   *)
(* cut to limit drops a category name before it drops a matching title.    *)
(* Stated for queries that hold no LIKE wildcard.                          *)
(***************************************************************************)
Plain(query) == \A k \in 1..Len(query) : query[k] \notin {"%", "_"}

\* the titles of the eligible listings of the tenant that contain the query
MatchingTitles(req) ==
    {listings[id].title : id \in {i \in VisibleIds(DB, req.tenant_id) :
                                    HasQuery(listings[i].title, req.query)}}

C23_TitlesBeforeNames ==
    (SuggestionsReturned /\ Plain(resp.req.query)) =>
        LET titles == MatchingTitles(resp.req)
            given == {resp.suggestions[i] : i \in 1..Len(resp.suggestions)}
        IN  /\ \A i, j \in 1..Len(resp.suggestions) :
                    (resp.suggestions[i] \notin titles /\ resp.suggestions[j] \in titles)
                        => j < i
            /\ (given \ titles # {}) => titles \subseteq given

C27_TotalMatchesResults ==
    (/\ SearchReturned
     /\ resp.req.categories = <<>> /\ resp.req.tags = <<>>
     /\ resp.req.offset = 0
     /\ resp.req.limit >= resp.total) =>
        /\ Len(resp.results) = resp.total
        /\ resp.has_more = FALSE

(***************************************************************************)
(* C26: a listing associated with two or more of the category slugs, or    *)
(* tag slugs, given to search() is counted once in total and appears once  *)
(* in results: total is the number of distinct matching listings.          *)
(***************************************************************************)
C26_CountedOnce ==
    (/\ SearchReturned
     /\ OnlyGiven(resp.req, {"categories", "tags"})
     /\ (resp.req.categories # <<>> \/ resp.req.tags # <<>>)) =>
        /\ \A i, j \in 1..Len(resp.results) :
                i # j => resp.results[i] # resp.results[j]
        /\ resp.total =
                Cardinality({id \in VisibleIds(DB, resp.req.tenant_id) :
                    /\ resp.req.tags # <<>> => TaggedIn(id, Slugs(resp.req.tags))
                    /\ resp.req.categories # <<>> =>
                            CategorizedIn(id, Slugs(resp.req.categories))})

(***************************************************************************)
(* C25: after any sequence of insert attempts no two listings of one       *)
(* tenant share a slug; an insert of a (tenant_id, slug) that is already   *)
(* stored fails and stores nothing, and an insert whose (tenant_id, slug)  *)
(* is not stored, the slug being used by another tenant or not, succeeds   *)
(* and stores the row.                                                     *)
(***************************************************************************)
Taken(req) ==
    \E id \in DOMAIN listings :
        listings[id].tenant_id = req.tenant_id /\ listings[id].slug = req.slug

NoSharedSlug ==
    \A i, j \in DOMAIN listings :
        (i # j /\ listings[i].tenant_id = listings[j].tenant_id) =>
            listings[i].slug # listings[j].slug

InsertStep ==
    (resp = Idle /\ resp' # Idle /\ resp'.op = "insert") =>
        IF Taken(resp'.req)
        THEN resp'.status = "error" /\ listings' = listings
        ELSE /\ resp'.status = "ok"
             /\ DOMAIN listings' = DOMAIN listings \cup {resp'.id}
             /\ resp'.id \notin DOMAIN listings
             /\ listings'[resp'.id].tenant_id = resp'.req.tenant_id
             /\ listings'[resp'.id].slug = resp'.req.slug
             /\ \A id \in DOMAIN listings : listings'[id] = listings[id]

C25_SlugUniquePerTenant == []NoSharedSlug /\ [][InsertStep]_vars

\* a duplicate was refused while the same slug is stored for both tenants
C25_Witness ==
    /\ resp # Idle
    /\ resp.op = "insert"
    /\ resp.status = "error"
    /\ \E i, j \in DOMAIN listings :
            /\ listings[i].tenant_id # listings[j].tenant_id
            /\ listings[i].slug = listings[j].slug
            /\ listings[i].slug = resp.req.slug

(***************************************************************************)
(* C28: for every client identifier and every second t, the admissions of  *)
(* the rate limiter with timestamps in (t - rate_limit_window, t] number   *)
(* at most rate_limit_requests; a rejected request leaves the count of its *)
(* client as it was, and a request leaves the counts of the other clients  *)
(* as they were.                                                           *)
(***************************************************************************)
RECURSIVE AdmittedBetween(_, _, _)
AdmittedBetween(c, after, until) ==
    IF until <= after THEN 0
    ELSE (IF until \in DOMAIN admitted[c] THEN admitted[c][until] ELSE 0)
            + AdmittedBetween(c, after, until - 1)

WindowBounded ==
    \A c \in ClientIds, t \in 0..(int(MaxTime) + rate_limit_window) :
        AdmittedBetween(c, t - rate_limit_window, t) <= rate_limit_requests

Counted(limiter, c, now) ==
    IF c \notin DOMAIN limiter THEN 0
    ELSE SumValues(Recent(limiter[c], now - rate_limit_window))

LimiterStep ==
    (/\ request # NoRequest
     /\ request' # NoRequest
     /\ request.client_id = None
     /\ request'.client_id # None) =>
        /\ \A c \in ClientIds \ request'.client_id :
                /\ admitted'[c] = admitted[c]
                /\ Counted(rate_limit_store', c, int(time)) =
                        Counted(rate_limit_store, c, int(time))
        /\ request'.exc # None =>
                /\ admitted' = admitted
                /\ Counted(rate_limit_store', Get(request'.client_id), int(time)) =
                        Counted(rate_limit_store, Get(request'.client_id), int(time))

C28_WindowNeverExceeded == []WindowBounded /\ [][LimiterStep]_vars

\* a client at its limit is rejected while another client has admissions
C28_Witness ==
    /\ request # NoRequest
    /\ request.exc = Some(429)
    /\ AdmittedBetween(Get(request.client_id), int(time) - rate_limit_window, int(time))
            = rate_limit_requests
    /\ \E c \in ClientIds \ request.client_id :
            AdmittedBetween(c, int(time) - rate_limit_window, int(time)) > 0

(***************************************************************************)
(* C29: when the rate limiter has computed the client identifier of a      *)
(* request on a path no middleware skips, and the request carries a valid  *)
(* active tenant (the tenant middleware resolved it), the identifier is    *)
(* "tenant:<id>".                                                          *)
(***************************************************************************)
C29_CountedUnderTenant ==
    (/\ request # NoRequest
     /\ ~_should_skip_tenant_resolution(request.req)
     /\ request.client_id # None
     /\ request.state.tenant_id # None) =>
        request.client_id = Some(<<"tenant", Get(request.state.tenant_id)>>)

(***************************************************************************)
(* C30: a request on a path outside the skip list that the rate limiter    *)
(* let through reaches the handler only with a tenant resolved and active; *)
(* with no identifier (header, then subdomain, then query parameter) it is *)
(* answered 400, with an identifier of no active tenant 404, and in both   *)
(* cases the handler is not called.                                        *)
(***************************************************************************)
SkipList == {HealthPath, DocsPath, RedocPath, OpenapiPath, FaviconPath}

ActiveTenant(identifier) ==
    \E t \in DOMAIN tenants :
        /\ t = identifier \/ tenants[t].subdomain = identifier
        /\ tenants[t].status = "active"

C30_TenantGate ==
    (/\ request # NoRequest
     /\ request.req.path \notin SkipList
     /\ request.exc # Some(429)) =>
        /\ request.called =>
                /\ request.state.tenant_id # None
                /\ tenants[Get(request.state.tenant_id)].status = "active"
        /\ request.response # None =>
                LET identifier == _extract_tenant_id(request.req)
                IN  /\ identifier = None =>
                            Get(request.response).status = 400 /\ ~request.called
                    /\ (identifier # None /\ ~ActiveTenant(Get(identifier))) =>
                            Get(request.response).status = 404 /\ ~request.called

====
